---- MODULE Spec2Model ----
(***************************************************************************)
(* Chat transcript store, pathway store and user identity resolver of the  *)
(* learning-roadmap application (server actions over a Prisma database).   *)
(*                                                                         *)
(* Every `await prisma...` call of a handler is one atomic step of the     *)
(* process running the handler; two handlers run concurrently.             *)
(***************************************************************************)
EXTENDS Integers, Sequences, FiniteSets, TLC

(* ------------------------------ bounds --------------------------------- *)
\* total number of server-action calls started in one behaviour
MaxCalls == 2

Procs == {"p1", "p2"}

(* ------------------------------ values --------------------------------- *)
\* JavaScript null / undefined of a string-valued field
None == "none"
Null == "null"
Undefined == "undefined"
NoUser == 0
GuestEmail == "guest@example.com"
GuestName == "Guest"

\* the first 60 characters of a message become the title
TitleMax == 60

\* String.prototype.trim on the session strings the model uses
Trim(s) == IF s = "e1 " THEN "e1" ELSE s

\* v?.trim() || null
TrimOrNull(s) == IF s = None \/ Trim(s) = "" THEN None ELSE Trim(s)

SessEmails == {None, "e1"}
SessNames == {None, "n1"}
Sessions == [email : SessEmails, name : SessNames]
\* a session whose email carries trailing white space
PaddedSession == [email |-> "e1 ", name |-> "n1"]

\* message contents are sequences of characters
ShortContent == <<"h", "i">>
LongContent == [i \in 1..(TitleMax + 1) |-> "x"]
Msg(i, t, c) == [id |-> i, type |-> t, content |-> c]
\* two user messages of the same content under different ids, and two replies
UserMsgs == {Msg(1, "user", LongContent), Msg(2, "user", LongContent)}
AiMsgs == {Msg(3, "ai", ShortContent), Msg(4, "ai", ShortContent)}

\* an optional title is the empty set (null) or a singleton
NoTitle == {}
TitleOf(s) == {s}
TitleText == <<"T">>
FallbackText == <<"F">>
OtherFallback == <<"G">>

Roadmaps == {"R1", "R2"}
Statuses == {"DRAFT", "ACTIVE"}

\* content.slice(0, 60)
Slice(s, n) == SubSeq(s, 1, IF Len(s) < n THEN Len(s) ELSE n)

\* JavaScript falsiness of an optional string
Falsy(t) == t = NoTitle \/ t = TitleOf(<<>>)

(* ------------------------------- state --------------------------------- *)
VARIABLES
  users,     \* User table, in creation order; the id of a row is its index
  chats,     \* Chat table, in creation order; the id of a row is its index
  pathways,  \* Pathway table, in creation order; the id of a row is its index
  recent,    \* chat ids ordered by updatedAt, most recent first
  call,      \* per process: the handler it runs, its arguments and locals
  out,       \* the call that ended last (as it stood at its last step) and its outcome
  calls,     \* number of calls started
  practice,  \* the generatePractice call: its input, locals, response and result
  extract,   \* the roadmap extraction: the text it is applied to and its result
  page       \* the home chat page: its React state, its handleSend calls in
             \* flight and the saveChatSnapshot calls it has made

vars == <<users, chats, pathways, recent, call, out, calls, practice, extract, page>>

\* the state of the chat store, and what its server actions leave alone
server == <<users, chats, pathways, recent, call, out, calls>>
rest == <<practice, extract, page>>

\* meta.ui maps keys to values; a key that is not set maps to Absent
UiKeys == {"theme", "panel"}
UiVals == {"a", "b"}
Absent == "absent"
NoUi == [k \in UiKeys |-> Absent]
\* the uiPatch argument: not given, or the keys it sets
NoPatch == [given |-> FALSE, set |-> NoUi]
Patch(k, v) == [given |-> TRUE, set |-> [NoUi EXCEPT ![k] = v]]

NoRow == [userId |-> NoUser, title |-> NoTitle, messages |-> <<>>, roadmap |-> Null,
          ui |-> NoUi, events |-> <<>>, deletedAt |-> FALSE]
NoArgs == [title |-> NoTitle, messages |-> <<>>, roadmap |-> Undefined, status |-> Undefined,
           uiPatch |-> NoPatch]
NoRes == [kind |-> "none", id |-> 0, created |-> FALSE,
          title |-> NoTitle, messages |-> <<>>, roadmap |-> Null, items |-> <<>>]
Idle == [op |-> "none", pc |-> "idle", sess |-> [email |-> None, name |-> None], chatId |-> 0,
         args |-> NoArgs, uid |-> NoUser, rd |-> NoRow, existing |-> 0]

\* The database a behaviour starts from: empty, or the one left by an anonymous
\* listChats (the guest is created), a second-variant saveChatSnapshot of a
\* signed-in user (that user is upserted) and an anonymous
\* createChat({ initialMessages: [] }).
SeedUsers == <<[email |-> GuestEmail, name |-> GuestName], [email |-> "e1", name |-> "n1"]>>
SeedChats == <<[NoRow EXCEPT !.userId = 1, !.events = <<[type |-> "createChat", len |-> 0]>>]>>

\* the same with createChat({ title, initialMessages: [], initialRoadmap })
SeedTitled ==
  <<[NoRow EXCEPT !.userId = 1, !.title = TitleOf(TitleText), !.roadmap = "R1",
                  !.events = <<[type |-> "createChat", len |-> 0]>>]>>

\* no generatePractice call, no extraction
NoPractice == [pc |-> "none"]
NoExtract == [pc |-> "none"]
\* the home chat page is not open
NoPage == [open |-> FALSE]

Started ==
  /\ pathways = <<>>
  /\ call = [p \in Procs |-> Idle]
  /\ out = [call |-> Idle, res |-> NoRes]
  /\ calls = 0

\* two chats of the guest and one of the signed-in user, created in this order
SeedListed ==
  SeedChats \o SeedTitled \o
  <<[NoRow EXCEPT !.userId = 2, !.events = <<[type |-> "createChat", len |-> 0]>>]>>

Init ==
  /\ \/ users = <<>> /\ chats = <<>> /\ recent = <<>>
     \/ users = SeedUsers /\ chats = SeedChats /\ recent = <<1>>
  /\ Started
  /\ practice = NoPractice
  /\ extract = NoExtract
  /\ page = NoPage

InitTitled ==
  /\ \/ users = <<>> /\ chats = <<>> /\ recent = <<>>
     \/ users = SeedUsers /\ chats = SeedChats /\ recent = <<1>>
     \/ users = SeedUsers /\ chats = SeedTitled /\ recent = <<1>>
  /\ Started
  /\ practice = NoPractice
  /\ extract = NoExtract
  /\ page = NoPage

InitListed ==
  /\ \/ users = <<>> /\ chats = <<>> /\ recent = <<>>
     \/ users = SeedUsers /\ chats = SeedListed /\ recent = <<3, 2, 1>>
  /\ Started
  /\ practice = NoPractice
  /\ extract = NoExtract
  /\ page = NoPage

(* --------------------------- database helpers -------------------------- *)
Ids(table) == 1..Len(table)

Max(S) == CHOOSE x \in S : \A y \in S : y <= x

\* prisma.user.findFirst({ where: { email } }): email is a unique column
FindByEmail(us, e) ==
  IF \E i \in Ids(us) : us[i].email = e
  THEN CHOOSE i \in Ids(us) : us[i].email = e
  ELSE NoUser

\* prisma.user.findFirst({ where: { name }, orderBy: { createdAt: "desc" } })
FindByNameDesc(us, n) ==
  IF \E i \in Ids(us) : us[i].name = n
  THEN Max({i \in Ids(us) : us[i].name = n})
  ELSE NoUser

\* the outcome of an identity resolution: the User table after it, the id it
\* yields, and whether it raised instead
Resolved(us, u) == [users |-> us, uid |-> u, threw |-> FALSE]
Threw(us) == [users |-> us, uid |-> NoUser, threw |-> TRUE]

\* an upsert that inserts without looking for the row
UpsertAlwaysCreates(us, e, updName, newName) ==
  Resolved(Append(us, [email |-> e, name |-> newName]), Len(us) + 1)

\* prisma.user.upsert({ where: { email }, update: { name? }, create: { email, name } })
UpsertByEmail(us, e, updName, newName) ==
  LET i == FindByEmail(us, e) IN
    IF i # NoUser
    THEN Resolved(IF updName = None THEN us ELSE [us EXCEPT ![i].name = updName], i)
    ELSE Resolved(Append(us, [email |-> e, name |-> newName]), Len(us) + 1)

ensureGuestUserId(us) == UpsertByEmail(us, GuestEmail, None, GuestName)

\* first variant: findFirst by email and dereference the result; the name
\* branch returns `created.id` although nothing was created
resolveUserIdFromSession(us, sess) ==
  LET email == TrimOrNull(sess.email)
      name == TrimOrNull(sess.name)
  IN IF email # None
     THEN IF FindByEmail(us, email) # NoUser
          THEN Resolved(us, FindByEmail(us, email))
          ELSE Threw(us)
     ELSE IF name # None
          THEN IF FindByNameDesc(us, name) # NoUser
               THEN Resolved(us, FindByNameDesc(us, name))
               ELSE Threw(us)
          ELSE ensureGuestUserId(us)

whoami(us, sess) ==
  IF sess.name # None /\ sess.name # ""
  THEN resolveUserIdFromSession(us, sess)
  ELSE ensureGuestUserId(us)

\* the inline resolution of savePlanAsPathway: the untrimmed session email,
\* findFirst(...)?.id (undefined when there is no such user), else the guest
pathwayUserId(us, sess) ==
  IF sess.email # None /\ sess.email # ""
  THEN Resolved(us, FindByEmail(us, sess.email))
  ELSE ensureGuestUserId(us)

\* second variant, the database call it starts with: upsert by email, or
\* findFirst by name (the create is a second call), or the guest upsert
resolveUserIdFromSession2(us, sess) ==
  LET email == TrimOrNull(sess.email)
      name == TrimOrNull(sess.name)
  IN IF email # None
     THEN UpsertByEmail(us, email, name, name)
     ELSE IF name # None
          THEN Resolved(us, FindByNameDesc(us, name))
          ELSE ensureGuestUserId(us)

\* the chat moves to the front of the updatedAt order
Touch(order, c) == <<c>> \o SelectSeq(order, LAMBDA x : x # c)

(* --------------------------- handler plumbing -------------------------- *)
Ready(p, D) == call[p].pc = "idle" /\ calls < D.max

Ok == [NoRes EXCEPT !.kind = "ok"]
NotOwned == [NoRes EXCEPT !.kind = "notOwned"]
Raised == [NoRes EXCEPT !.kind = "threw"]

\* a handler starts with its identity resolution R and goes on at pc next,
\* or ends at once when the resolution raises
Begin(p, D, op, sess, chatId, args, R, next) ==
  /\ Ready(p, D)
  /\ calls' = calls + 1
  /\ UNCHANGED rest
  /\ users' = R.users
  /\ IF R.threw
     THEN /\ out' = [call |-> [Idle EXCEPT !.op = op, !.sess = sess, !.chatId = chatId,
                                            !.args = args],
                     res |-> Raised]
          /\ UNCHANGED call
     ELSE /\ call' = [call EXCEPT ![p] = [Idle EXCEPT !.op = op, !.pc = next, !.sess = sess,
                                            !.chatId = chatId, !.args = args, !.uid = R.uid]]
          /\ UNCHANGED out

At(p, op, pc) == call[p].op = op /\ call[p].pc = pc

\* the handler of p ends with outcome res
Return(p, res) ==
  /\ call' = [call EXCEPT ![p] = Idle]
  /\ out' = [call |-> call[p], res |-> res]

\* an ownership check that only looks for the chat
OwnsAnyChat(u, c) == c \in Ids(chats)

\* !chat || chat.userId !== userId, negated
Owns(u, c) == c \in Ids(chats) /\ chats[c].userId = u

\* a chat id argument: an existing chat or (D.missing = 1) one id that names no chat
ChatIdArgs(D) == 1..(Len(chats) + D.missing)

(* ------------------- chat actions, first variant ----------------------- *)
\* D is the domain the caller's inputs are drawn from

\* params.roadmap ?? null
OrNull(r) == IF r = Undefined THEN Null ELSE r

createChat_whoami(p, D) ==
  /\ \E sess \in D.sess, t \in D.titles, m \in D.seeds, r \in D.roadmaps :
       Begin(p, D, "createChat", sess, 0,
             [NoArgs EXCEPT !.title = t, !.messages = m, !.roadmap = r],
             whoami(users, sess), "create")
  /\ UNCHANGED <<chats, pathways, recent>>

\* prisma.chat.create of the chat with its seed meta
NewChat(u, a, evs) ==
  [userId |-> u, title |-> a.title, messages |-> a.messages, roadmap |-> OrNull(a.roadmap),
   ui |-> NoUi, events |-> evs, deletedAt |-> FALSE]

createChat_create(p) ==
  /\ At(p, "createChat", "create")
  /\ chats' = Append(chats, NewChat(call[p].uid, call[p].args, <<[type |-> "createChat", len |-> 0]>>))
  /\ recent' = <<Len(chats) + 1>> \o recent
  /\ Return(p, [Ok EXCEPT !.id = Len(chats) + 1])
  /\ UNCHANGED <<users, pathways, calls, rest>>

listChats_whoami(p, D) ==
  /\ \E sess \in D.sess :
       Begin(p, D, "listChats", sess, 0, NoArgs, whoami(users, sess), "findMany")
  /\ UNCHANGED <<chats, pathways, recent>>

\* select: { id, title, updatedAt, startedAt }; the timestamps of an item are
\* its place in the updatedAt order
Item(c) == [id |-> c, title |-> chats[c].title]

\* a listing that leaves the deleted chats in
ListOfWithDeleted(u) ==
  LET ids == SelectSeq(recent, LAMBDA c : chats[c].userId = u)
  IN [i \in 1..Len(ids) |-> Item(ids[i])]

\* findMany({ where: { userId, deletedAt: null }, orderBy: { updatedAt: "desc" } })
ListOf(u) ==
  LET ids == SelectSeq(recent, LAMBDA c : chats[c].userId = u /\ ~chats[c].deletedAt)
  IN [i \in 1..Len(ids) |-> Item(ids[i])]

listChats_findMany(p) ==
  /\ At(p, "listChats", "findMany")
  /\ Return(p, [Ok EXCEPT !.items = ListOf(call[p].uid)])
  /\ UNCHANGED <<users, chats, pathways, recent, calls, rest>>

\* assertOwnChat: findUnique, then throw unless the chat exists and is the caller's
assertOwnChat(p, op, next) ==
  /\ At(p, op, "assert")
  /\ IF Owns(call[p].uid, call[p].chatId)
     THEN call' = [call EXCEPT ![p].pc = next] /\ UNCHANGED out
     ELSE Return(p, Raised)
  /\ UNCHANGED <<users, chats, pathways, recent, calls, rest>>

getChatSnapshot_whoami(p, D) ==
  /\ \E sess \in D.sess, c \in ChatIdArgs(D) :
       Begin(p, D, "getChatSnapshot", sess, c, NoArgs, whoami(users, sess), "assert")
  /\ UNCHANGED <<chats, pathways, recent>>

getChatSnapshot_assert(p) == assertOwnChat(p, "getChatSnapshot", "read")

\* the chat object getChatSnapshot returns for a stored row
SnapshotOf(row) ==
  [Ok EXCEPT !.title = row.title, !.messages = row.messages, !.roadmap = OrNull(row.roadmap)]

getChatSnapshot_read(p) ==
  /\ At(p, "getChatSnapshot", "read")
  /\ Return(p, SnapshotOf(chats[call[p].chatId]))
  /\ UNCHANGED <<users, chats, pathways, recent, calls, rest>>

appendTurn_whoami(p, D) ==
  /\ \E sess \in D.sess, c \in ChatIdArgs(D), u \in D.umsgs, a \in D.amsgs, r \in D.roadmaps,
        patch \in D.patches :
       Begin(p, D, "appendTurn", sess, c,
             [NoArgs EXCEPT !.messages = <<u, a>>, !.roadmap = r, !.uiPatch = patch],
             whoami(users, sess), "assert")
  /\ UNCHANGED <<chats, pathways, recent>>

appendTurn_assert(p) == assertOwnChat(p, "appendTurn", "txRead")

\* tx.chat.findUnique({ select: { meta, title } }) inside the transaction
appendTurn_txRead(p) ==
  /\ At(p, "appendTurn", "txRead")
  /\ call' = [call EXCEPT ![p].pc = "txUpdate", ![p].rd = chats[call[p].chatId]]
  /\ UNCHANGED out
  /\ UNCHANGED <<users, chats, pathways, recent, calls, rest>>

FirstUser(ms) == ms[CHOOSE i \in 1..Len(ms) : ms[i].type = "user" /\ \A j \in 1..(i - 1) : ms[j].type # "user"]

\* messages.find((m) => m.type === "user")?.content.slice(0, 60) ?? null
TitleFrom(ms) ==
  IF \E i \in 1..Len(ms) : ms[i].type = "user"
  THEN TitleOf(Slice(FirstUser(ms).content, TitleMax))
  ELSE NoTitle

\* a uiPatch that replaces the ui map
ReplaceUi(ui, set) == set

\* { ...(meta.ui ?? {}), ...params.uiPatch }
MergeUi(ui, set) == [k \in UiKeys |-> IF set[k] # Absent THEN set[k] ELSE ui[k]]

\* an appendTurn that skips a message whose content is already stored
TurnRowDedup(row, cur, a) ==
  LET known == {cur.messages[i].content : i \in 1..Len(cur.messages)}
      messages == cur.messages \o SelectSeq(a.messages, LAMBDA m : m.content \notin known)
  IN [row EXCEPT
        !.messages = messages,
        !.events = Append(cur.events, [type |-> "appendTurn", len |-> Len(a.messages[1].content)])]

\* the row appendTurn writes over `row`, computed from what it read (cur)
TurnRow(row, cur, a) ==
  LET messages == cur.messages \o a.messages IN
  [row EXCEPT
     !.messages = messages,
     !.roadmap = IF a.roadmap # Undefined THEN a.roadmap ELSE cur.roadmap,
     !.ui = IF a.uiPatch.given THEN MergeUi(cur.ui, a.uiPatch.set) ELSE cur.ui,
     !.events = Append(cur.events, [type |-> "appendTurn", len |-> Len(a.messages[1].content)]),
     !.title = IF Falsy(cur.title) /\ Len(messages) # 0 THEN TitleFrom(messages) ELSE row.title]

\* tx.chat.update and commit.  The transaction runs at the database's default
\* isolation level: a row written by another call since the read is either
\* overwritten (read committed) or the transaction is aborted (a level that
\* detects the conflict).
appendTurn_txUpdate(p) ==
  /\ At(p, "appendTurn", "txUpdate")
  /\ \/ /\ chats' = [chats EXCEPT ![call[p].chatId] = TurnRow(@, call[p].rd, call[p].args)]
        /\ recent' = Touch(recent, call[p].chatId)
        /\ Return(p, Ok)
     \/ /\ chats[call[p].chatId] # call[p].rd
        /\ UNCHANGED <<chats, recent>>
        /\ Return(p, Raised)
  /\ UNCHANGED <<users, pathways, calls, rest>>

renameChat_whoami(p, D) ==
  /\ \E sess \in D.sess, c \in ChatIdArgs(D), t \in D.titles \ {NoTitle} :
       Begin(p, D, "renameChat", sess, c, [NoArgs EXCEPT !.title = t],
             whoami(users, sess), "assert")
  /\ UNCHANGED <<chats, pathways, recent>>

renameChat_assert(p) == assertOwnChat(p, "renameChat", "update")

\* a rename that also clears deletedAt
renameChat_restores(p) ==
  /\ At(p, "renameChat", "update")
  /\ chats' = [chats EXCEPT ![call[p].chatId].title = call[p].args.title,
                            ![call[p].chatId].deletedAt = FALSE]
  /\ recent' = Touch(recent, call[p].chatId)
  /\ Return(p, Ok)
  /\ UNCHANGED <<users, pathways, calls, rest>>

renameChat_update(p) ==
  /\ At(p, "renameChat", "update")
  /\ chats' = [chats EXCEPT ![call[p].chatId].title = call[p].args.title]
  /\ recent' = Touch(recent, call[p].chatId)
  /\ Return(p, Ok)
  /\ UNCHANGED <<users, pathways, calls, rest>>

deleteChat_whoami(p, D) ==
  /\ \E sess \in D.sess, c \in ChatIdArgs(D) :
       Begin(p, D, "deleteChat", sess, c, NoArgs, whoami(users, sess), "assert")
  /\ UNCHANGED <<chats, pathways, recent>>

deleteChat_assert(p) == assertOwnChat(p, "deleteChat", "update")

deleteChat_update(p) ==
  /\ At(p, "deleteChat", "update")
  /\ chats' = [chats EXCEPT ![call[p].chatId].deletedAt = TRUE]
  /\ recent' = Touch(recent, call[p].chatId)
  /\ Return(p, Ok)
  /\ UNCHANGED <<users, pathways, calls, rest>>

(* -------------------- saveChatSnapshot, both variants ------------------ *)
saveChatSnapshot_resolve(p, D) ==
  /\ \E sess \in D.sess, c \in ChatIdArgs(D), m \in D.lists, r \in D.roadmaps, t \in D.fallbacks :
       Begin(p, D, "saveChatSnapshot", sess, c,
             [NoArgs EXCEPT !.messages = m, !.roadmap = r, !.title = t],
             resolveUserIdFromSession(users, sess), "check")
  /\ UNCHANGED <<chats, pathways, recent>>

\* findUnique({ select: { userId, title } }) and the ownership check
saveChatSnapshot_check(p) ==
  /\ call[p].op \in {"saveChatSnapshot", "saveChatSnapshot2"}
  /\ call[p].pc = "check"
  /\ IF Owns(call[p].uid, call[p].chatId)
     THEN call' = [call EXCEPT ![p].pc = "update", ![p].rd = chats[call[p].chatId]] /\ UNCHANGED out
     ELSE Return(p, NotOwned)
  /\ UNCHANGED <<users, chats, pathways, recent, calls, rest>>

\* a saveChatSnapshot that writes a whole new row, not the owner's
SnapshotRowWithoutOwner(row, cur, a) ==
  [NoRow EXCEPT
     !.messages = a.messages,
     !.roadmap = OrNull(a.roadmap),
     !.title = IF ~Falsy(a.title) /\ Falsy(cur.title) THEN a.title ELSE row.title]

\* a saveChatSnapshot that keeps the stored roadmap when none is passed
SnapshotRowKeepsRoadmap(row, cur, a) ==
  [row EXCEPT
     !.messages = a.messages,
     !.roadmap = IF a.roadmap = Undefined THEN row.roadmap ELSE a.roadmap,
     !.ui = NoUi,
     !.events = <<>>,
     !.title = IF ~Falsy(a.title) /\ Falsy(cur.title) THEN a.title ELSE row.title]

\* the row saveChatSnapshot writes over `row`: meta is replaced by
\* { messages, roadmap }; the title is set from the fallback when the title
\* read at the ownership check (cur) was empty
SnapshotRow(row, cur, a) ==
  [row EXCEPT
     !.messages = a.messages,
     !.roadmap = OrNull(a.roadmap),
     !.ui = NoUi,
     !.events = <<>>,
     !.title = IF ~Falsy(a.title) /\ Falsy(cur.title) THEN a.title ELSE row.title]

saveChatSnapshot_update(p) ==
  /\ call[p].op \in {"saveChatSnapshot", "saveChatSnapshot2"}
  /\ call[p].pc = "update"
  /\ chats' = [chats EXCEPT ![call[p].chatId] = SnapshotRow(@, call[p].rd, call[p].args)]
  /\ recent' = Touch(recent, call[p].chatId)
  /\ Return(p, Ok)
  /\ UNCHANGED <<users, pathways, calls, rest>>

(* ------------------------------ pathways ------------------------------- *)
savePlanAsPathway_resolve(p, D) ==
  /\ \E sess \in D.sess, c \in ChatIdArgs(D), plan \in D.plans, t \in D.titles, st \in D.statuses :
       Begin(p, D, "savePlanAsPathway", sess, c,
             [NoArgs EXCEPT !.roadmap = plan, !.title = t, !.status = st],
             pathwayUserId(users, sess), "check")
  /\ UNCHANGED <<chats, pathways, recent>>

savePlanAsPathway_check(p) ==
  /\ At(p, "savePlanAsPathway", "check")
  /\ IF Owns(call[p].uid, call[p].chatId)
     THEN call' = [call EXCEPT ![p].pc = "findExisting"] /\ UNCHANGED out
     ELSE Return(p, NotOwned)
  /\ UNCHANGED <<users, chats, pathways, recent, calls, rest>>

\* prisma.pathway.findUnique({ where: { chatId } }): chatId is a unique column
PathwayOf(ps, c) ==
  IF \E i \in Ids(ps) : ps[i].chatId = c
  THEN CHOOSE i \in Ids(ps) : ps[i].chatId = c
  ELSE 0

savePlanAsPathway_findExisting(p) ==
  /\ At(p, "savePlanAsPathway", "findExisting")
  /\ call' = [call EXCEPT ![p].pc = "write", ![p].existing = PathwayOf(pathways, call[p].chatId)]
  /\ UNCHANGED out
  /\ UNCHANGED <<users, chats, pathways, recent, calls, rest>>

\* an update that leaves the stored plan
UpdatedPathwayKeepsPlan(row, a) ==
  [row EXCEPT
     !.title = IF a.title = NoTitle THEN row.title ELSE a.title,
     !.status = IF a.status = Undefined THEN row.status ELSE a.status]

\* prisma.pathway.update: title and status only when the call supplies them
UpdatedPathway(row, a) ==
  [row EXCEPT
     !.title = IF a.title = NoTitle THEN row.title ELSE a.title,
     !.status = IF a.status = Undefined THEN row.status ELSE a.status,
     !.planSpec = a.roadmap]

\* a create that passes the status on as it came
CreatedPathwayNoDefault(u, c, a) ==
  [userId |-> u, chatId |-> c, title |-> a.title, status |-> a.status, planSpec |-> a.roadmap]

\* prisma.pathway.create
CreatedPathway(u, c, a) ==
  [userId |-> u, chatId |-> c, title |-> a.title,
   status |-> IF a.status = Undefined THEN "DRAFT" ELSE a.status,
   planSpec |-> a.roadmap]

\* the unique index on Pathway.chatId rejects a second row for the chat
PathwayCreateAllowed(ps, c) == PathwayOf(ps, c) = 0

savePlanAsPathway_write(p) ==
  /\ At(p, "savePlanAsPathway", "write")
  /\ IF call[p].existing # 0
     THEN /\ pathways' = [pathways EXCEPT ![call[p].existing] = UpdatedPathway(@, call[p].args)]
          /\ Return(p, [Ok EXCEPT !.id = call[p].existing, !.created = FALSE])
     ELSE IF PathwayCreateAllowed(pathways, call[p].chatId)
          THEN /\ pathways' = Append(pathways, CreatedPathway(call[p].uid, call[p].chatId, call[p].args))
               /\ Return(p, [Ok EXCEPT !.id = Len(pathways) + 1, !.created = TRUE])
          ELSE /\ UNCHANGED pathways
               /\ Return(p, Raised)
  /\ UNCHANGED <<users, chats, recent, calls, rest>>

(* ------------------- chat actions, second variant ---------------------- *)
\* where a second-variant handler goes after the first call of its resolution:
\* to the user create when the name lookup found nobody
After2(sess, R, next) ==
  IF TrimOrNull(sess.email) = None /\ TrimOrNull(sess.name) # None /\ R.uid = NoUser
  THEN "createUser"
  ELSE next

createChat2_resolve(p, D) ==
  /\ \E sess \in D.sess, t \in D.titles, m \in D.seeds, r \in D.roadmaps :
       Begin(p, D, "createChat2", sess, 0,
             [NoArgs EXCEPT !.title = t, !.messages = m, !.roadmap = r],
             resolveUserIdFromSession2(users, sess),
             After2(sess, resolveUserIdFromSession2(users, sess), "create"))
  /\ UNCHANGED <<chats, pathways, recent>>

saveChatSnapshot2_resolve(p, D) ==
  /\ \E sess \in D.sess, c \in ChatIdArgs(D), m \in D.lists, r \in D.roadmaps, t \in D.fallbacks :
       Begin(p, D, "saveChatSnapshot2", sess, c,
             [NoArgs EXCEPT !.messages = m, !.roadmap = r, !.title = t],
             resolveUserIdFromSession2(users, sess),
             After2(sess, resolveUserIdFromSession2(users, sess), "check"))
  /\ UNCHANGED <<chats, pathways, recent>>

\* prisma.user.create({ data: { name } }) of the name branch
resolve2_createUser(p) ==
  /\ call[p].pc = "createUser"
  /\ users' = Append(users, [email |-> None, name |-> TrimOrNull(call[p].sess.name)])
  /\ call' = [call EXCEPT ![p].uid = Len(users) + 1,
                          ![p].pc = IF call[p].op = "createChat2" THEN "create" ELSE "check"]
  /\ UNCHANGED <<chats, pathways, recent, out, calls, rest>>

createChat2_create(p) ==
  /\ At(p, "createChat2", "create")
  /\ chats' = Append(chats, NewChat(call[p].uid, call[p].args, <<>>))
  /\ recent' = <<Len(chats) + 1>> \o recent
  /\ Return(p, [Ok EXCEPT !.id = Len(chats) + 1])
  /\ UNCHANGED <<users, pathways, calls, rest>>

(* ------------- createChat of src/app/actions/chat.ts ------------------- *)
\* the session auth() yields for the user row u, or for nobody
SessionOf(u) ==
  IF u = NoUser THEN [email |-> None, name |-> None]
  ELSE [email |-> users[u].email, name |-> users[u].name]

\* session?.user?.id ?? (await ensureGuestUserId())
sessionUserId(us, u) == IF u = NoUser THEN ensureGuestUserId(us) ELSE Resolved(us, u)

createChat3_auth(p, D) ==
  /\ \E u \in {NoUser} \cup Ids(users), t \in D.titles \ {NoTitle} :
       Begin(p, D, "createChat3", SessionOf(u), 0, [NoArgs EXCEPT !.title = t],
             sessionUserId(users, u), "create")
  /\ UNCHANGED <<chats, pathways, recent>>

\* prisma.chat.create({ data: { userId, title } }): the row has no meta
createChat3_create(p) ==
  /\ At(p, "createChat3", "create")
  /\ chats' = Append(chats, [NoRow EXCEPT !.userId = call[p].uid, !.title = call[p].args.title])
  /\ recent' = <<Len(chats) + 1>> \o recent
  /\ Return(p, [Ok EXCEPT !.id = Len(chats) + 1])
  /\ UNCHANGED <<users, pathways, calls, rest>>

(* ---------------- generatePractice (src/app/actions/quiz.ts) ----------- *)
\* longest candidate lists of a response
MaxCands == 7
MaxTextCands == 5
\* the counts a caller passes
MinCount == 0 - 1
MaxCount == 8

\* A JavaScript value of a candidate's field: its type, and a number that is
\* the length of an array, the value of an integer, the floor of a
\* non-integer (frac), or the name of a string.
Val(t, n, frac) == [t |-> t, n |-> n, frac |-> frac]
Str(n) == Val("string", n, FALSE)
Int_(n) == Val("number", n, FALSE)
Half(n) == Val("number", n, TRUE)
Arr(n) == Val("array", n, FALSE)
Undef == Val("undefined", 0, FALSE)

\* an MCQ candidate (null when not an object) and a short-answer candidate
Mcq(q, o, c) == [isObj |-> TRUE, question |-> q, options |-> o, correctIndex |-> c]
NullMcq == [isObj |-> FALSE, question |-> Undef, options |-> Undef, correctIndex |-> Undef]
TextQ(pr) == [isObj |-> TRUE, prompt |-> pr]
NullTextQ == [isObj |-> FALSE, prompt |-> Undef]

\* the i-th well-shaped candidate of a response
GoodMcq(i) == Mcq(Str(i), Arr(4), Int_(i % 4))
GoodTextQ(i) == TextQ(Str(i))

\* candidates the validation has to reject, as the i-th of a response
BadMcqs(i) ==
  {Mcq(Str(i), Arr(3), Int_(1)), Mcq(Str(i), Arr(5), Int_(1)), Mcq(Str(i), Str(4), Int_(1)),
   Mcq(Str(i), Arr(4), Int_(4)), Mcq(Str(i), Arr(4), Int_(0 - 1)), Mcq(Str(i), Arr(4), Half(1)),
   Mcq(Str(i), Arr(4), Str(1)), Mcq(Str(i), Arr(4), Undef), Mcq(Int_(i), Arr(4), Int_(1)),
   Mcq(Undef, Arr(4), Int_(1)), NullMcq}
BadTextQs(i) == {TextQ(Int_(i)), TextQ(Undef), NullTextQ}

\* candidate lists: well-shaped throughout, or with one bad candidate
McqLists ==
  UNION {{[i \in 1..n |-> GoodMcq(i)]} \cup
         UNION {{[i \in 1..n |-> IF i = b THEN bad ELSE GoodMcq(i)] : bad \in BadMcqs(b)}
                : b \in 1..n}
         : n \in 0..MaxCands}
TextLists ==
  UNION {{[i \in 1..n |-> GoodTextQ(i)]} \cup
         UNION {{[i \in 1..n |-> IF i = b THEN bad ELSE GoodTextQ(i)] : bad \in BadTextQs(b)}
                : b \in 1..n}
         : n \in 0..MaxTextCands}

\* a parsed JSON document: an object with (maybe) the keys mcqs and texts, or
\* another value; a key that is absent or not an array has isArray FALSE
Field(xs) == [isArray |-> TRUE, items |-> xs]
NoField == [isArray |-> FALSE, items |-> <<>>]
Doc(m, t) == [kind |-> "object", mcqs |-> m, texts |-> t]
OtherDoc(k) == [kind |-> k, mcqs |-> NoField, texts |-> NoField]

Docs ==
  {Doc(Field(m), Field(<<GoodTextQ(1), GoodTextQ(2)>>)) : m \in McqLists} \cup
  {Doc(Field(<<GoodMcq(1)>>), Field(t)) : t \in TextLists} \cup
  {Doc(NoField, Field(<<GoodTextQ(1)>>)), Doc(Field(<<GoodMcq(1)>>), NoField),
   OtherDoc("null"), OtherDoc("number"), OtherDoc("array"), OtherDoc("string")}

\* what the awaited model.generateContent call does: it rejects, or it yields a
\* response whose text is a JSON document or is not JSON
NoDoc == OtherDoc("none")
Failure == [kind |-> "rejected", doc |-> NoDoc]
Prose == [kind |-> "prose", doc |-> NoDoc]
JsonText(d) == [kind |-> "json", doc |-> d]
Responses == {Failure, Prose} \cup {JsonText(d) : d \in Docs}

\* JSON.parse(raw): the document of a JSON text, a SyntaxError otherwise
JsonParse(raw) ==
  IF raw.kind = "json" THEN [ok |-> TRUE, value |-> raw.doc] ELSE [ok |-> FALSE, value |-> NoDoc]

\* an optional count of the input
Count(n) == [given |-> TRUE, n |-> n]
NoCount == [given |-> FALSE, n |-> 0]
Counts == {NoCount} \cup {Count(n) : n \in MinCount..MaxCount}

PracticeInputs == [apiKey : BOOLEAN, numMcqs : Counts, numTexts : Counts]

Min2(a, b) == IF a < b THEN a ELSE b
Max2(a, b) == IF a > b THEN a ELSE b

\* a clamp without the upper limit
ClampFromBelow(c, dflt, hi) == Max2(1, IF c.given THEN c.n ELSE dflt)

\* Math.max(1, Math.min(input.n ?? dflt, hi))
Clamp(c, dflt, hi) == Max2(1, Min2(IF c.given THEN c.n ELSE dflt, hi))

\* a validation that lets correctIndex 4 pass
ValidMcqUpTo4(q) ==
  /\ q.isObj
  /\ q.question.t = "string"
  /\ q.options.t = "array"
  /\ q.options.n = 4
  /\ q.correctIndex.t = "number" /\ ~q.correctIndex.frac
  /\ q.correctIndex.n >= 0
  /\ q.correctIndex.n <= 4

\* the filter of the mcqs
ValidMcq(q) ==
  /\ q.isObj
  /\ q.question.t = "string"
  /\ q.options.t = "array"
  /\ q.options.n = 4
  /\ q.correctIndex.t = "number" /\ ~q.correctIndex.frac
  /\ q.correctIndex.n >= 0
  /\ q.correctIndex.n < 4

\* the filter of the texts
ValidTextQ(t) == t.isObj /\ t.prompt.t = "string"

EmptyPractice == [kind |-> "returned", mcqs |-> <<>>, texts |-> <<>>]
PracticeRaised == [kind |-> "threw", mcqs |-> <<>>, texts |-> <<>>]

\* the try block: parse, filter and truncate; the catch returns the empty
\* result
ParsedPractice(raw, numMcqs, numTexts) ==
  LET parsed == JsonParse(raw) IN
    IF ~parsed.ok THEN EmptyPractice
    ELSE [kind |-> "returned",
          mcqs |-> IF parsed.value.mcqs.isArray
                   THEN Slice(SelectSeq(parsed.value.mcqs.items, ValidMcq), numMcqs)
                   ELSE <<>>,
          texts |-> IF parsed.value.texts.isArray
                    THEN Slice(SelectSeq(parsed.value.texts.items, ValidTextQ), numTexts)
                    ELSE <<>>]

ReadyPractice(i) ==
  [pc |-> "ready", input |-> i, numMcqs |-> 0, numTexts |-> 0, resp |-> Prose, res |-> EmptyPractice]

\* up to the await: the key check, the clamps, the request
generatePractice_request ==
  /\ practice.pc = "ready"
  /\ IF ~practice.input.apiKey
     THEN practice' = [practice EXCEPT !.pc = "done", !.res = EmptyPractice]
     ELSE practice' = [practice EXCEPT !.pc = "awaiting",
                                       !.numMcqs = Clamp(practice.input.numMcqs, 3, 6),
                                       !.numTexts = Clamp(practice.input.numTexts, 2, 4)]
  /\ UNCHANGED <<server, extract, page>>

\* from the await on: generateContent rejects, outside the try block, or its
\* text goes through the try block
generatePractice_response ==
  /\ practice.pc = "awaiting"
  /\ \E r \in Responses :
       practice' = [practice EXCEPT
         !.pc = "done",
         !.resp = r,
         !.res = IF r.kind = "rejected" THEN PracticeRaised
                 ELSE ParsedPractice(r, practice.numMcqs, practice.numTexts)]
  /\ UNCHANGED <<server, extract, page>>

(* ------------- tryExtractRoadmapFromText (src/app/page.tsx) ------------ *)
\* A text is a sequence of tokens: the characters "[", "]", "{", "}", ",",
\* white space "sp", a word of prose "w", the JSON literals "5" and "null",
\* and the members "type":"TOPIC" (tT), "type":"SUBTOPIC" (tS),
\* "type":"OTHER" (tX), "name":"A" (nA), "name":"B" (nB), "name":5 (n5) and
\* the key "subtopics": (s:), which its value follows.

\* longest text made of brackets, prose and literals in every order
MaxShort == 4
\* longest text before and after an embedded span
MaxAffix == 1

SeqsUpTo(A, n) == UNION {[1..k -> A] : k \in 0..n}

\* text.indexOf(c) and text.lastIndexOf(c), counted from 1; 0 when absent
IndexOf(text, c) ==
  IF \E i \in 1..Len(text) : text[i] = c
  THEN CHOOSE i \in 1..Len(text) : text[i] = c /\ \A j \in 1..(i - 1) : text[j] # c
  ELSE 0
LastIndexOf(text, c) ==
  IF \E i \in 1..Len(text) : text[i] = c
  THEN CHOOSE i \in 1..Len(text) : text[i] = c /\ \A j \in (i + 1)..Len(text) : text[j] # c
  ELSE 0

\* String.prototype.trim of a text
TrimText(text) ==
  IF \A i \in 1..Len(text) : text[i] = "sp" THEN <<>>
  ELSE LET a == CHOOSE i \in 1..Len(text) : text[i] # "sp" /\ \A j \in 1..(i - 1) : text[j] = "sp"
           b == CHOOSE i \in 1..Len(text) : text[i] # "sp" /\ \A j \in (i + 1)..Len(text) : text[j] = "sp"
       IN SubSeq(text, a, b)

\* A JSON value: an array of values, an object with its type, name and
\* subtopics members (subs holds the value of subtopics, if any), a number or
\* null.
JV(k, items, type, nameT, name, subs) ==
  [k |-> k, items |-> items, type |-> type, nameT |-> nameT, name |-> name, subs |-> subs]
JArray(items) == JV("array", items, "", "undefined", "", <<>>)
JObject == JV("object", <<>>, "", "undefined", "", <<>>)
JNumber == JV("number", <<>>, "", "undefined", "", <<>>)
JNull == JV("null", <<>>, "", "undefined", "", <<>>)

Parsed(v, next) == [ok |-> TRUE, v |-> v, next |-> next]
SyntaxError == [ok |-> FALSE, v |-> JNull, next |-> 0]

RECURSIVE SkipWs(_, _)
SkipWs(t, i) == IF i <= Len(t) /\ t[i] = "sp" THEN SkipWs(t, i + 1) ELSE i

\* the object with one more member; a repeated key takes the later value
WithMember(o, tok) ==
  CASE tok = "tT" -> [o EXCEPT !.type = "TOPIC"]
    [] tok = "tS" -> [o EXCEPT !.type = "SUBTOPIC"]
    [] tok = "tX" -> [o EXCEPT !.type = "OTHER"]
    [] tok = "nA" -> [o EXCEPT !.nameT = "string", !.name = "A"]
    [] tok = "nB" -> [o EXCEPT !.nameT = "string", !.name = "B"]
    [] tok = "n5" -> [o EXCEPT !.nameT = "number", !.name = "5"]

Members == {"tT", "tS", "tX", "nA", "nB", "n5"}

RECURSIVE ParseValue(_, _)
RECURSIVE ParseElems(_, _, _)
RECURSIVE ParseMembers(_, _, _)

\* the elements of an array from position i on, up to its "]"
ParseElems(t, i, acc) ==
  LET r == ParseValue(t, i) IN
    IF ~r.ok THEN SyntaxError
    ELSE LET k == SkipWs(t, r.next) IN
           IF k > Len(t) THEN SyntaxError
           ELSE IF t[k] = "]" THEN Parsed(JArray(Append(acc, r.v)), k + 1)
           ELSE IF t[k] = "," THEN ParseElems(t, k + 1, Append(acc, r.v))
           ELSE SyntaxError

\* the members of an object from position i on, up to its "}"
ParseMembers(t, i, o) ==
  LET j == SkipWs(t, i) IN
    IF j > Len(t) THEN SyntaxError
    ELSE LET m == IF t[j] \in Members THEN Parsed(WithMember(o, t[j]), j + 1)
                  ELSE IF t[j] = "s:"
                       THEN LET r == ParseValue(t, j + 1)
                            IN IF r.ok THEN Parsed([o EXCEPT !.subs = <<r.v>>], r.next) ELSE SyntaxError
                       ELSE SyntaxError
         IN IF ~m.ok THEN SyntaxError
            ELSE LET k == SkipWs(t, m.next) IN
                   IF k > Len(t) THEN SyntaxError
                   ELSE IF t[k] = "}" THEN Parsed(m.v, k + 1)
                   ELSE IF t[k] = "," THEN ParseMembers(t, k + 1, m.v)
                   ELSE SyntaxError

\* the JSON value that starts at position i
ParseValue(t, i) ==
  LET j == SkipWs(t, i) IN
    IF j > Len(t) THEN SyntaxError
    ELSE IF t[j] = "5" THEN Parsed(JNumber, j + 1)
    ELSE IF t[j] = "null" THEN Parsed(JNull, j + 1)
    ELSE IF t[j] = "[" THEN
           LET k == SkipWs(t, j + 1) IN
             IF k <= Len(t) /\ t[k] = "]" THEN Parsed(JArray(<<>>), k + 1)
             ELSE ParseElems(t, j + 1, <<>>)
    ELSE IF t[j] = "{" THEN
           LET k == SkipWs(t, j + 1) IN
             IF k <= Len(t) /\ t[k] = "}" THEN Parsed(JObject, k + 1)
             ELSE ParseMembers(t, j + 1, JObject)
    ELSE SyntaxError

\* JSON.parse(json): one value and nothing but white space after it
ParseJson(t) ==
  LET r == ParseValue(t, 1) IN
    IF r.ok /\ SkipWs(t, r.next) > Len(t) THEN r ELSE SyntaxError

\* s?.type === "SUBTOPIC" && typeof s.name === "string"
IsSubtopic(v) == v.k = "object" /\ v.type = "SUBTOPIC" /\ v.nameT = "string"

\* a topic test that does not look into the subtopics array
IsTopicShallow(v) ==
  /\ v.k = "object"
  /\ v.type = "TOPIC"
  /\ v.nameT = "string"
  /\ Len(v.subs) = 1
  /\ v.subs[1].k = "array"

\* t?.type === "TOPIC" && typeof t.name === "string" &&
\* Array.isArray(t.subtopics) && t.subtopics.every(...)
IsTopic(v) ==
  /\ v.k = "object"
  /\ v.type = "TOPIC"
  /\ v.nameT = "string"
  /\ Len(v.subs) = 1
  /\ v.subs[1].k = "array"
  /\ \A i \in 1..Len(v.subs[1].items) : IsSubtopic(v.subs[1].items[i])

\* the result of an extraction: a roadmap, null, or an exception
RoadmapFound(v) == [kind |-> "roadmap", plan |-> v]
NoRoadmap == [kind |-> "null", plan |-> JNull]
ExtractRaised == [kind |-> "threw", plan |-> JNull]

\* an extraction whose JSON.parse stands outside the try block
tryExtractUnguarded(text) ==
  LET first == IndexOf(text, "[")
      last == LastIndexOf(text, "]")
  IN IF first = 0 \/ last = 0 \/ last <= first THEN NoRoadmap
     ELSE LET parsed == ParseJson(TrimText(SubSeq(text, first, last))) IN
            IF ~parsed.ok THEN ExtractRaised
            ELSE IF parsed.v.k # "array" THEN NoRoadmap
            ELSE IF \A i \in 1..Len(parsed.v.items) : IsTopic(parsed.v.items[i])
                 THEN RoadmapFound(parsed.v)
                 ELSE NoRoadmap

tryExtractRoadmapFromText(text) ==
  LET first == IndexOf(text, "[")
      last == LastIndexOf(text, "]")
  IN IF first = 0 \/ last = 0 \/ last <= first THEN NoRoadmap
     ELSE LET parsed == ParseJson(TrimText(SubSeq(text, first, last))) IN
            IF ~parsed.ok THEN NoRoadmap
            ELSE IF parsed.v.k # "array" THEN NoRoadmap
            ELSE IF \A i \in 1..Len(parsed.v.items) : IsTopic(parsed.v.items[i])
                 THEN RoadmapFound(parsed.v)
                 ELSE NoRoadmap

\* the texts of subtopics, topics and roadmaps
SubtopicText(n) == <<"{", "tS", ",", n, "}">>
TopicText(n, subs) == <<"{", "tT", ",", n, ",", "s:">> \o subs \o <<"}">>
OneTopic == <<"[">> \o TopicText("nA", <<"[", "]">>) \o <<"]">>
TwoSubtopics == <<"[">> \o SubtopicText("nA") \o <<",", "sp">> \o SubtopicText("nB") \o <<"]">>
TwoTopics ==
  <<"[">> \o TopicText("nA", TwoSubtopics) \o <<",">> \o TopicText("nB", <<"[", "]">>) \o <<"]">>

\* spans that are roadmaps
RoadmapSpans == {<<"[", "]">>, <<"[", "sp", "]">>, OneTopic, TwoTopics}

\* spans from "[" to "]" that are no roadmap: elements of another shape, and
\* texts that are no JSON
OtherSpans ==
  {<<"[", "5", "]">>, <<"[", "null", "]">>, <<"[", "[", "]", "]">>,
   <<"[", "{", "}", "]">>,
   <<"[", "{", "tX", ",", "nA", ",", "s:", "[", "]", "}", "]">>,
   <<"[", "{", "tT", ",", "n5", ",", "s:", "[", "]", "}", "]">>,
   <<"[", "{", "tT", ",", "nA", "}", "]">>,
   <<"[", "{", "tT", ",", "nA", ",", "s:", "5", "}", "]">>,
   <<"[", "{", "tT", ",", "nA", ",", "s:", "[", "5", "]", "}", "]">>,
   <<"[", "{", "tT", ",", "nA", ",", "s:", "[", "{", "tX", ",", "nA", "}", "]", "}", "]">>,
   <<"[", "{", "tT", ",", "nA", ",", "s:", "[", "{", "tS", ",", "n5", "}", "]", "}", "]">>,
   <<"[">> \o TopicText("nA", <<"[", "]">>) \o <<",", "5", "]">>,
   <<"[">> \o TopicText("nA", <<"[", "]">>) \o <<",", "]">>,
   <<"[">> \o TopicText("nA", <<"[", "]">>) \o TopicText("nB", <<"[", "]">>) \o <<"]">>,
   <<"[", "{", "tT", ",", "nA", ",", "s:", "[", "]", "]">>,
   <<"[", "w", "]">>}

Affixes == SeqsUpTo({"w", "sp", "[", "]"}, MaxAffix)

Texts ==
  SeqsUpTo({"[", "]", "w", "5", ",", "sp"}, MaxShort) \cup
  {pre \o span \o suf : pre \in Affixes, span \in RoadmapSpans \cup OtherSpans, suf \in Affixes}

\* the text of a reply, the roadmap extracted from it and the text left after
\* the span is stripped (page.tsx lines 789-790)
ReadyExtract(t) == [pc |-> "ready", text |-> t, res |-> NoRoadmap, clean |-> <<>>]

tryExtractRoadmapFromText_call ==
  /\ extract.pc = "ready"
  /\ extract' = [extract EXCEPT !.pc = "done", !.res = tryExtractRoadmapFromText(extract.text)]
  /\ UNCHANGED <<server, practice, page>>

\* [before, after].filter(Boolean).join("\n\n"): "nn" stands for the blank line
JoinParts(before, after) ==
  IF before # <<>> /\ after # <<>> THEN before \o <<"nn">> \o after ELSE before \o after

stripRoadmapJsonFromText(text) ==
  LET first == IndexOf(text, "[")
      last == LastIndexOf(text, "]")
  IN IF first = 0 \/ last = 0 \/ last <= first THEN text
     ELSE LET before == TrimText(SubSeq(text, 1, first - 1))
              after == TrimText(SubSeq(text, last + 1, Len(text)))
          IN TrimText(JoinParts(before, after))

stripRoadmapJsonFromText_call ==
  /\ extract.pc = "done"
  /\ extract' = [extract EXCEPT !.pc = "stripped", !.clean = stripRoadmapJsonFromText(extract.text)]
  /\ UNCHANGED <<server, practice, page>>

(* ------------- handleSend of the home chat page (part_001) ------------- *)
\* number of messages sent from the page in one behaviour
MaxSends == 2

\* the messages the page shows: the welcome message, and for the n-th send
\* its user message, the reply, the error message of the catch block and the
\* "Failed to create chat." message
Shown(n, type, what) == [of |-> n, type |-> type, what |-> what]
Welcome == Shown(0, "ai", "welcome")
userMsg(n) == Shown(n, "user", "content")
aiMsg(n) == Shown(n, "ai", "reply")
aiErr(n) == Shown(n, "ai", "error")
createFailed(n) == Shown(n, "ai", "createFailed")

\* what a server action or the backend answers: createChat returns
\* { ok: true, chatId } or rejects; saveChatSnapshot returns { ok: true },
\* { ok: false, error } or rejects; callBackend returns the reply text or
\* throws (network failure, HTML interstitial, non-2xx status)
CreateOutcomes == {"ok", "threw"}
SaveOutcomes == {"ok", "notOk", "threw"}
Replies == {<<"w">>, <<"w">> \o OneTopic}

\* messages, chatId and roadmap as the render that created the handler saw them
Closure(pg) == [messages |-> pg.messages, chatId |-> pg.chatId, roadmap |-> pg.roadmap]

\* one handleSend call: where it is, the state its closure holds, whether its
\* createChat and backend call succeeded, whether something it awaited failed,
\* whether it rejected, and whether its setTimeout callback is pending
NotSent ==
  [pc |-> "unsent", closure |-> [messages |-> <<>>, chatId |-> 0, roadmap |-> NoRoadmap],
   created |-> 0, replied |-> FALSE, plan |-> NoRoadmap, failed |-> FALSE, rejected |-> FALSE, timer |-> FALSE]

\* the page after mount: useState initial values (part_001 lines 640-658)
OpenPage ==
  [open |-> TRUE, messages |-> <<Welcome>>, isTyping |-> FALSE, chatId |-> 0,
   roadmap |-> NoRoadmap, sends |-> 0, chatsCreated |-> 0,
   run |-> [n \in 1..MaxSends |-> NotSent], saves |-> <<>>]

\* a saveChatSnapshot call as it leaves the page
SaveCall(n, chatId, messages, roadmap, titleFallback) ==
  [of |-> n, chatId |-> chatId, messages |-> messages, roadmap |-> roadmap,
   titleFallback |-> titleFallback]

\* setMessages((m) => [...m, userMsg]); setCurrentMessage(""); setIsTyping(true)
LocalUi(pg, n) == [pg EXCEPT !.messages = Append(@, userMsg(n)), !.isTyping = TRUE]

\* the user sends a non-empty message: handleSend up to its first await
handleSend ==
  /\ page.open
  /\ page.sends < MaxSends
  /\ LET n == page.sends + 1
         pg == [page EXCEPT !.sends = n, !.run[n].closure = Closure(page)]
     IN page' = IF page.chatId = 0
                THEN [pg EXCEPT !.run[n].pc = "createChat"]
                ELSE [LocalUi(pg, n) EXCEPT !.run[n].pc = "callBackend"]
  /\ UNCHANGED <<server, practice, extract>>

\* `await createChat(...)` settles
handleSend_createChat(n) ==
  /\ page.open
  /\ page.run[n].pc = "createChat"
  /\ \E o \in CreateOutcomes :
       page' =
         IF o = "threw"
         THEN [page EXCEPT !.run[n].pc = "done", !.run[n].rejected = TRUE]
         ELSE IF o # "ok"
         THEN [page EXCEPT !.messages = Append(@, createFailed(n)), !.run[n].pc = "done"]
         ELSE [LocalUi(page, n) EXCEPT !.chatId = page.chatsCreated + 1,
                                       !.chatsCreated = @ + 1,
                                       !.run[n].created = page.chatsCreated + 1,
                                       !.run[n].pc = "callBackend"]
  /\ UNCHANGED <<server, practice, extract>>

\* the catch block (lines 756-773) and, when it awaits nothing, finally
Catch(pg, n) ==
  LET cl == pg.run[n].closure
      newMessages == cl.messages \o <<userMsg(n), aiErr(n)>>
      shown == [pg EXCEPT !.messages = newMessages, !.run[n].failed = TRUE]
  IN IF cl.chatId # 0
     THEN [shown EXCEPT !.saves = Append(@, SaveCall(n, cl.chatId, newMessages, cl.roadmap, Undefined)),
                        !.run[n].pc = "catchSave"]
     ELSE [shown EXCEPT !.isTyping = FALSE, !.run[n].pc = "done"]

\* messages.length <= 2 ? content.slice(0, 60) : null
TitleFallback(cl) == IF Len(cl.messages) <= 2 THEN "content" ELSE Null

\* lines 723-755 after the reply has arrived
Replied(pg, n, reply) ==
  LET cl == pg.run[n].closure
      newMessages == cl.messages \o <<userMsg(n), aiMsg(n)>>
      plan == tryExtractRoadmapFromText(reply)
      shown == [pg EXCEPT !.messages = newMessages, !.roadmap = plan, !.run[n].replied = TRUE,
                          !.run[n].plan = plan]
  IN IF cl.chatId # 0
     THEN [shown EXCEPT !.saves = Append(@, SaveCall(n, cl.chatId, newMessages, plan, TitleFallback(cl))),
                        !.run[n].pc = "save"]
     ELSE [shown EXCEPT !.run[n].timer = TRUE, !.isTyping = FALSE, !.run[n].pc = "done"]

\* `await callBackend(content)` settles
handleSend_callBackend(n) ==
  /\ page.open
  /\ page.run[n].pc = "callBackend"
  /\ \/ \E reply \in Replies : page' = Replied(page, n, reply)
     \/ page' = Catch(page, n)
  /\ UNCHANGED <<server, practice, extract>>

\* `await saveChatSnapshot(...)` of the try block settles
handleSend_saveChatSnapshot(n) ==
  /\ page.open
  /\ page.run[n].pc = "save"
  /\ \E o \in SaveOutcomes :
       page' = IF o = "threw" THEN Catch(page, n)
               ELSE [page EXCEPT !.isTyping = FALSE, !.run[n].pc = "done",
                                 !.run[n].failed = (o = "notOk")]
  /\ UNCHANGED <<server, practice, extract>>

\* `await saveChatSnapshot(...)` of the catch block settles, then finally
handleSend_catchSave(n) ==
  /\ page.open
  /\ page.run[n].pc = "catchSave"
  /\ \E o \in SaveOutcomes :
       page' = [page EXCEPT !.isTyping = FALSE, !.run[n].pc = "done",
                            !.run[n].rejected = (o = "threw")]
  /\ UNCHANGED <<server, practice, extract>>

\* the setTimeout callback of lines 746-754 runs
handleSend_timeout(n) ==
  /\ page.open
  /\ page.run[n].timer
  /\ LET cl == page.run[n].closure
         newMessages == cl.messages \o <<userMsg(n), aiMsg(n)>>
     IN page' = IF cl.chatId # 0
                THEN [page EXCEPT !.run[n].timer = FALSE,
                                  !.saves = Append(@, SaveCall(n, cl.chatId, newMessages,
                                                               page.run[n].plan, Undefined))]
                ELSE [page EXCEPT !.run[n].timer = FALSE]
  /\ UNCHANGED <<server, practice, extract>>

(* --------------------------- specifications ---------------------------- *)
\* identity and ownership: every handler, every kind of session, one value
\* for each payload
AllHandlers ==
  [max |-> MaxCalls,
   missing |-> 1,
   sess |-> Sessions,
   titles |-> {TitleOf(TitleText)},
   fallbacks |-> {NoTitle},
   seeds |-> {<<>>},
   lists |-> {<<>>},
   roadmaps |-> {Undefined},
   patches |-> {NoPatch},
   umsgs |-> {Msg(1, "user", ShortContent)},
   amsgs |-> {Msg(2, "ai", ShortContent)},
   plans |-> {"R1"},
   statuses |-> {Undefined}]

Next ==
  \E p \in Procs :
    \/ createChat_whoami(p, AllHandlers)
    \/ createChat_create(p)
    \/ listChats_whoami(p, AllHandlers)
    \/ listChats_findMany(p)
    \/ getChatSnapshot_whoami(p, AllHandlers)
    \/ getChatSnapshot_assert(p)
    \/ getChatSnapshot_read(p)
    \/ appendTurn_whoami(p, AllHandlers)
    \/ appendTurn_assert(p)
    \/ appendTurn_txRead(p)
    \/ appendTurn_txUpdate(p)
    \/ renameChat_whoami(p, AllHandlers)
    \/ renameChat_assert(p)
    \/ renameChat_update(p)
    \/ deleteChat_whoami(p, AllHandlers)
    \/ deleteChat_assert(p)
    \/ deleteChat_update(p)
    \/ saveChatSnapshot_resolve(p, AllHandlers)
    \/ saveChatSnapshot_check(p)
    \/ saveChatSnapshot_update(p)
    \/ savePlanAsPathway_resolve(p, AllHandlers)
    \/ savePlanAsPathway_check(p)
    \/ savePlanAsPathway_findExisting(p)
    \/ savePlanAsPathway_write(p)

Spec == Init /\ [][Next]_vars

\* the transcript of one anonymous user: the handlers that read and write
\* Chat.meta and the title, with varied payloads
Anonymous == [email |-> None, name |-> None]

Transcript ==
  [max |-> MaxCalls,
   missing |-> 0,
   sess |-> {Anonymous},
   titles |-> {NoTitle, TitleOf(TitleText)},
   fallbacks |-> {NoTitle, TitleOf(FallbackText), TitleOf(OtherFallback)},
   seeds |-> {<<Msg(5, "user", ShortContent)>>},
   lists |-> {<<>>, <<Msg(5, "user", ShortContent), Msg(6, "ai", ShortContent)>>},
   roadmaps |-> {Undefined, "R1"},
   patches |-> {NoPatch},
   umsgs |-> UserMsgs,
   amsgs |-> AiMsgs,
   plans |-> {"R1"},
   statuses |-> {Undefined}]

NextTranscript ==
  \E p \in Procs :
    \/ createChat_whoami(p, Transcript)
    \/ createChat_create(p)
    \/ getChatSnapshot_whoami(p, Transcript)
    \/ getChatSnapshot_assert(p)
    \/ getChatSnapshot_read(p)
    \/ appendTurn_whoami(p, Transcript)
    \/ appendTurn_assert(p)
    \/ appendTurn_txRead(p)
    \/ appendTurn_txUpdate(p)
    \/ renameChat_whoami(p, Transcript)
    \/ renameChat_assert(p)
    \/ renameChat_update(p)
    \/ deleteChat_whoami(p, Transcript)
    \/ deleteChat_assert(p)
    \/ deleteChat_update(p)
    \/ saveChatSnapshot_resolve(p, Transcript)
    \/ saveChatSnapshot_check(p)
    \/ saveChatSnapshot_update(p)

SpecTranscript == Init /\ [][NextTranscript]_vars

\* snapshots of a signed-in and an anonymous user: both variants of
\* saveChatSnapshot and the handler that reads the snapshot back
SignedIn == [email |-> "e1", name |-> "n1"]

Snapshots ==
  [max |-> MaxCalls,
   missing |-> 0,
   sess |-> {Anonymous, SignedIn},
   titles |-> {NoTitle},
   fallbacks |-> {NoTitle, TitleOf(FallbackText), TitleOf(OtherFallback)},
   seeds |-> {<<>>},
   lists |-> {<<Msg(5, "user", ShortContent), Msg(6, "ai", ShortContent)>>},
   roadmaps |-> {Undefined, "R1"},
   patches |-> {NoPatch},
   umsgs |-> UserMsgs,
   amsgs |-> AiMsgs,
   plans |-> {"R1"},
   statuses |-> {Undefined}]

NextSnapshot ==
  \E p \in Procs :
    \/ createChat_whoami(p, Snapshots)
    \/ createChat_create(p)
    \/ getChatSnapshot_whoami(p, Snapshots)
    \/ getChatSnapshot_assert(p)
    \/ getChatSnapshot_read(p)
    \/ saveChatSnapshot_resolve(p, Snapshots)
    \/ saveChatSnapshot2_resolve(p, Snapshots)
    \/ saveChatSnapshot_check(p)
    \/ saveChatSnapshot_update(p)

SpecSnapshot == InitTitled /\ [][NextSnapshot]_vars

\* the pathway of a chat: createChat and savePlanAsPathway of one anonymous
\* user, with varied plans, titles and statuses
Plans ==
  [max |-> MaxCalls,
   missing |-> 0,
   sess |-> {Anonymous},
   titles |-> {NoTitle, TitleOf(TitleText)},
   fallbacks |-> {NoTitle},
   seeds |-> {<<>>},
   lists |-> {<<>>},
   roadmaps |-> {Undefined},
   patches |-> {NoPatch},
   umsgs |-> UserMsgs,
   amsgs |-> AiMsgs,
   plans |-> Roadmaps,
   statuses |-> {Undefined, "ACTIVE"}]

NextPathway ==
  \E p \in Procs :
    \/ createChat_whoami(p, Plans)
    \/ createChat_create(p)
    \/ savePlanAsPathway_resolve(p, Plans)
    \/ savePlanAsPathway_check(p)
    \/ savePlanAsPathway_findExisting(p)
    \/ savePlanAsPathway_write(p)

SpecPathway == Init /\ [][NextPathway]_vars

\* identity resolution of every kind of session: the first variant's whoami
\* (listChats, createChat), the second variant's resolver (createChat) and the
\* createChat of src/app/actions/chat.ts
Identities ==
  [max |-> MaxCalls,
   missing |-> 0,
   sess |-> Sessions,
   titles |-> {NoTitle, TitleOf(TitleText)},
   fallbacks |-> {NoTitle},
   seeds |-> {<<>>},
   lists |-> {<<>>},
   roadmaps |-> {Undefined},
   patches |-> {NoPatch},
   umsgs |-> UserMsgs,
   amsgs |-> AiMsgs,
   plans |-> {"R1"},
   statuses |-> {Undefined}]

NextIdentity ==
  \E p \in Procs :
    \/ listChats_whoami(p, Identities)
    \/ listChats_findMany(p)
    \/ createChat_whoami(p, Identities)
    \/ createChat_create(p)
    \/ createChat2_resolve(p, Identities)
    \/ resolve2_createUser(p)
    \/ createChat2_create(p)
    \/ createChat3_auth(p, Identities)
    \/ createChat3_create(p)

SpecIdentity == Init /\ [][NextIdentity]_vars

\* the chat list of two users: the handlers that create, retitle, delete and
\* list chats
Listing ==
  [max |-> MaxCalls,
   missing |-> 0,
   sess |-> {Anonymous, SignedIn},
   titles |-> {TitleOf(FallbackText)},
   fallbacks |-> {NoTitle},
   seeds |-> {<<>>},
   lists |-> {<<>>},
   roadmaps |-> {Undefined},
   patches |-> {NoPatch},
   umsgs |-> UserMsgs,
   amsgs |-> AiMsgs,
   plans |-> {"R1"},
   statuses |-> {Undefined}]

NextListing ==
  \E p \in Procs :
    \/ createChat_whoami(p, Listing)
    \/ createChat_create(p)
    \/ listChats_whoami(p, Listing)
    \/ listChats_findMany(p)
    \/ renameChat_whoami(p, Listing)
    \/ renameChat_assert(p)
    \/ renameChat_update(p)
    \/ deleteChat_whoami(p, Listing)
    \/ deleteChat_assert(p)
    \/ deleteChat_update(p)

SpecListing == InitListed /\ [][NextListing]_vars

\* one generatePractice call on every input, with every response
NextPractice == generatePractice_request \/ generatePractice_response

InitPractice ==
  /\ users = <<>> /\ chats = <<>> /\ recent = <<>>
  /\ Started
  /\ practice \in {ReadyPractice(i) : i \in PracticeInputs}
  /\ extract = NoExtract
  /\ page = NoPage

SpecPractice == InitPractice /\ [][NextPractice]_vars

\* the extraction applied to every text
NextExtract == tryExtractRoadmapFromText_call \/ stripRoadmapJsonFromText_call

InitExtract ==
  /\ users = <<>> /\ chats = <<>> /\ recent = <<>>
  /\ Started
  /\ practice = NoPractice
  /\ extract \in {ReadyExtract(t) : t \in Texts}
  /\ page = NoPage

SpecExtract == InitExtract /\ [][NextExtract]_vars

\* the turns of one anonymous user on the seeded chat: appendTurn with every
\* kind of roadmap argument and uiPatch
Turns ==
  [max |-> MaxCalls,
   missing |-> 0,
   sess |-> {Anonymous},
   titles |-> {NoTitle},
   fallbacks |-> {NoTitle},
   seeds |-> {<<>>},
   lists |-> {<<>>},
   roadmaps |-> {Undefined, Null, "R1"},
   patches |-> {NoPatch, Patch("theme", "a"), Patch("theme", "b"), Patch("panel", "b")},
   umsgs |-> {Msg(1, "user", ShortContent)},
   amsgs |-> {Msg(3, "ai", ShortContent)},
   plans |-> {"R1"},
   statuses |-> {Undefined}]

NextTurns ==
  \E p \in Procs :
    \/ appendTurn_whoami(p, Turns)
    \/ appendTurn_assert(p)
    \/ appendTurn_txRead(p)
    \/ appendTurn_txUpdate(p)

SpecTurns == Init /\ [][NextTurns]_vars

\* the chats of every kind of session: createChat and the handlers that
\* check the ownership of the chat they are given
Owners ==
  [max |-> MaxCalls,
   missing |-> 0,
   sess |-> Sessions,
   titles |-> {TitleOf(TitleText)},
   fallbacks |-> {NoTitle},
   seeds |-> {<<>>},
   lists |-> {<<>>},
   roadmaps |-> {Undefined},
   patches |-> {NoPatch},
   umsgs |-> {Msg(1, "user", ShortContent)},
   amsgs |-> {Msg(3, "ai", ShortContent)},
   plans |-> {"R1"},
   statuses |-> {Undefined}]

NextOwnership ==
  \E p \in Procs :
    \/ createChat_whoami(p, Owners)
    \/ createChat_create(p)
    \/ getChatSnapshot_whoami(p, Owners)
    \/ getChatSnapshot_assert(p)
    \/ getChatSnapshot_read(p)
    \/ appendTurn_whoami(p, Owners)
    \/ appendTurn_assert(p)
    \/ appendTurn_txRead(p)
    \/ appendTurn_txUpdate(p)
    \/ renameChat_whoami(p, Owners)
    \/ renameChat_assert(p)
    \/ renameChat_update(p)
    \/ deleteChat_whoami(p, Owners)
    \/ deleteChat_assert(p)
    \/ deleteChat_update(p)
    \/ saveChatSnapshot_resolve(p, Owners)
    \/ saveChatSnapshot_check(p)
    \/ saveChatSnapshot_update(p)
    \/ savePlanAsPathway_resolve(p, Owners)
    \/ savePlanAsPathway_check(p)
    \/ savePlanAsPathway_findExisting(p)
    \/ savePlanAsPathway_write(p)

SpecOwnership == Init /\ [][NextOwnership]_vars

\* the home chat page: every message sent, every answer of the server
\* actions and of the backend
NextHome ==
  \/ handleSend
  \/ \E n \in 1..MaxSends :
       \/ handleSend_createChat(n)
       \/ handleSend_callBackend(n)
       \/ handleSend_saveChatSnapshot(n)
       \/ handleSend_catchSave(n)
       \/ handleSend_timeout(n)

InitHome ==
  /\ users = <<>> /\ chats = <<>> /\ recent = <<>>
  /\ Started
  /\ practice = NoPractice
  /\ extract = NoExtract
  /\ page = OpenPage

SpecHome == InitHome /\ [][NextHome]_vars

\* every awaited call settles and every timer fires; the user need not send
SpecHomeFair ==
  /\ InitHome
  /\ [][NextHome]_vars
  /\ \A n \in 1..MaxSends :
       /\ WF_vars(handleSend_createChat(n))
       /\ WF_vars(handleSend_callBackend(n))
       /\ WF_vars(handleSend_saveChatSnapshot(n))
       /\ WF_vars(handleSend_catchSave(n))
       /\ WF_vars(handleSend_timeout(n))

(* ------------------------------- claims -------------------------------- *)
\* the step is the last one of the handler process p runs
Ends(p) == call[p].pc # "idle" /\ call'[p].pc = "idle"

ChatHandlers ==
  {"getChatSnapshot", "saveChatSnapshot", "appendTurn", "renameChat", "deleteChat",
   "savePlanAsPathway"}

\* C1: a chat row changes, a pathway is written and a snapshot is returned only
\* in the last step of a handler whose resolved user id is the owner of the chat.
C1_OnlyOwnerReadsOrWrites ==
  [][/\ \A c \in Ids(chats) :
          chats'[c] # chats[c] =>
            \E p \in Procs : Ends(p) /\ call[p].chatId = c /\ call[p].uid = chats[c].userId
     /\ pathways' # pathways =>
          \E p \in Procs : /\ Ends(p)
                           /\ call[p].chatId \in Ids(chats)
                           /\ call[p].uid = chats[call[p].chatId].userId
     /\ \A p \in Procs :
          Ends(p) /\ call[p].op = "getChatSnapshot" /\ out'.res.kind = "ok" =>
            call[p].chatId \in Ids(chats) /\ call[p].uid = chats[call[p].chatId].userId
    ]_vars

\* a call on a chat of another user has ended without an ok
C1_Witness ==
  /\ out.call.op = "appendTurn"
  /\ out.call.chatId \in Ids(chats)
  /\ out.call.uid # NoUser
  /\ chats[out.call.chatId].userId # out.call.uid
  /\ out.res.kind # "ok"

\* C2: a handler called with a chat id that names no chat, or a chat of another
\* user, ends by returning the not-found-or-not-owned result, and it changes no
\* chat and no pathway.
C2_ReturnsNotOwned ==
  [][\A p \in Procs :
       /\ Ends(p)
       /\ call[p].op \in ChatHandlers
       /\ ~(call[p].chatId \in Ids(chats) /\ chats[call[p].chatId].userId = call[p].uid)
       => out'.res.kind = "notOwned" /\ chats' = chats /\ pathways' = pathways
    ]_vars

\* C10: a handler running for a session with an email runs as the user of that
\* email, and no call of such a session ends in its identity resolution.
C10_EmailSessionIsEmailUser ==
  /\ \A p \in Procs :
       call[p].pc # "idle" /\ call[p].sess.email # None =>
         /\ call[p].uid # NoUser
         /\ users[call[p].uid].email = TrimOrNull(call[p].sess.email)
  /\ ~(out.res.kind = "threw" /\ out.call.pc = "idle" /\ out.call.sess.email # None)

Range(f) == {f[i] : i \in 1..Len(f)}

\* C3: when an appendTurn returns ok and the call that ended before it was an
\* appendTurn on the same chat that returned ok, the stored list holds the two
\* messages of each of them, however their reads and writes interleaved.
C3_BothTurnsKept ==
  [][\A p \in Procs :
       /\ Ends(p)
       /\ call[p].op = "appendTurn"
       /\ out'.res.kind = "ok"
       /\ out.call.op = "appendTurn"
       /\ out.res.kind = "ok"
       /\ out.call.chatId = call[p].chatId
       => \A m \in Range(out.call.args.messages) \cup Range(call[p].args.messages) :
            m \in Range(chats'[call[p].chatId].messages)
    ]_vars

C5_SaveThenGet ==
  [][\A p \in Procs :
       /\ Ends(p)
       /\ call[p].op = "getChatSnapshot"
       /\ out'.res.kind = "ok"
       /\ out.call.op \in {"saveChatSnapshot", "saveChatSnapshot2"}
       /\ out.res.kind = "ok"
       /\ out.call.chatId = call[p].chatId
       /\ out.call.sess = call[p].sess
       => /\ out'.res.messages = out.call.args.messages
          /\ out'.res.roadmap =
               (IF out.call.args.roadmap = Undefined THEN Null ELSE out.call.args.roadmap)
          /\ out.call.rd.title # NoTitle => out'.res.title = out.call.rd.title
    ]_vars

\* a snapshot saved without a roadmap on a titled chat was read back
C5_Witness ==
  /\ out.call.op = "getChatSnapshot"
  /\ out.res.kind = "ok"
  /\ out.res.messages # <<>>
  /\ out.res.roadmap = Null
  /\ out.res.title = TitleOf(TitleText)
  /\ chats[out.call.chatId].events = <<>>

\* C6: a saveChatSnapshot changes the title only of a chat without a title and
\* only to a supplied titleFallback; a stored title is never replaced by it.
C6_TitleWrittenOnce ==
  [][\A p \in Procs :
       /\ Ends(p)
       /\ call[p].op \in {"saveChatSnapshot", "saveChatSnapshot2"}
       /\ chats'[call[p].chatId].title # chats[call[p].chatId].title
       => chats[call[p].chatId].title = NoTitle /\ call[p].args.title # NoTitle
    ]_vars

IsPrefix(s, t) == Len(s) <= Len(t) /\ SubSeq(t, 1, Len(s)) = s

\* C7: the events of a chat only grow at the end: in every step the events of
\* each chat before the step are a prefix of its events after the step.
C7_EventsAppendOnly ==
  [][\A c \in Ids(chats) : IsPrefix(chats[c].events, chats'[c].events)]_vars

\* the pathway rows of chat c
PathwaysOf(c) == {i \in Ids(pathways) : pathways[i].chatId = c}

\* C8: no chat ever has two pathway rows, and a savePlanAsPathway that returns
\* ok for a chat that has a pathway reports created = false and the id of that
\* row, whose planSpec is then the plan of this call.
C8_OnePathwayPerChat ==
  /\ [](\A c \in Ids(chats) : Cardinality(PathwaysOf(c)) <= 1)
  /\ [][\A p \in Procs :
          /\ Ends(p)
          /\ call[p].op = "savePlanAsPathway"
          /\ out'.res.kind = "ok"
          /\ PathwaysOf(call[p].chatId) # {}
          => /\ out'.res.id \in PathwaysOf(call[p].chatId)
             /\ ~out'.res.created
             /\ Len(pathways') = Len(pathways)
             /\ pathways'[out'.res.id].planSpec = call[p].args.roadmap
       ]_vars

\* the second save of a chat's plan replaced the plan of the first
C8_Witness ==
  /\ out.call.op = "savePlanAsPathway"
  /\ out.res.kind = "ok"
  /\ ~out.res.created
  /\ out.call.args.roadmap = "R2"
  /\ Len(pathways) = 1
  /\ pathways[1].planSpec = "R2"

\* C9: a savePlanAsPathway that returns ok either updates the pathway of the
\* chat (planSpec always, title and status only when supplied) and reports
\* created = false, or, when the chat has none, appends a pathway with the
\* supplied status or DRAFT and reports created = true.
C9_UpdateOrCreate ==
  [][\A p \in Procs :
       Ends(p) /\ call[p].op = "savePlanAsPathway" /\ out'.res.kind = "ok" =>
         LET a == call[p].args
             had == PathwaysOf(call[p].chatId)
         IN IF had # {}
            THEN /\ ~out'.res.created
                 /\ \E k \in had :
                      pathways' = [pathways EXCEPT
                        ![k].planSpec = a.roadmap,
                        ![k].title = IF a.title = NoTitle THEN @ ELSE a.title,
                        ![k].status = IF a.status = Undefined THEN @ ELSE a.status]
            ELSE /\ out'.res.created
                 /\ out'.res.id = Len(pathways) + 1
                 /\ pathways' = Append(pathways,
                      [userId |-> call[p].uid, chatId |-> call[p].chatId, title |-> a.title,
                       status |-> IF a.status = Undefined THEN "DRAFT" ELSE a.status,
                       planSpec |-> a.roadmap])
    ]_vars

\* an update without title and status kept the stored title and status
C9_Witness ==
  /\ out.call.op = "savePlanAsPathway"
  /\ out.res.kind = "ok"
  /\ ~out.res.created
  /\ out.call.args.title = NoTitle
  /\ out.call.args.status = Undefined
  /\ pathways[out.res.id].title = TitleOf(TitleText)
  /\ pathways[out.res.id].status = "ACTIVE"

\* the session carries a display name and no email
NameOnly(sess) == TrimOrNull(sess.email) = None /\ TrimOrNull(sess.name) # None

\* C11: a handler of chat.ts running for a session with a display name and no
\* email runs as a user of exactly that name who is not the guest, and no call
\* of such a session ends in its identity resolution.
C11_NameSessionIsNameUser ==
  /\ \A p \in Procs :
       call[p].pc # "idle" /\ call[p].op # "savePlanAsPathway" /\ NameOnly(call[p].sess) =>
         /\ call[p].uid # NoUser
         /\ users[call[p].uid].name = TrimOrNull(call[p].sess.name)
         /\ users[call[p].uid].email # GuestEmail
  /\ ~(/\ out.res.kind = "threw"
       /\ out.call.pc = "idle"
       /\ out.call.op # "savePlanAsPathway"
       /\ NameOnly(out.call.sess))

\* C12: no two User rows share an email, and every running handler of a fully
\* anonymous session runs as the user whose email is the guest sentinel, so
\* there is one guest and all anonymous calls resolve to it.
C12_EmailsUnique ==
  /\ \A i, j \in Ids(users) :
       i # j /\ users[i].email # None => users[i].email # users[j].email
  /\ \A p \in Procs :
       /\ call[p].pc # "idle"
       /\ TrimOrNull(call[p].sess.email) = None
       /\ TrimOrNull(call[p].sess.name) = None
       => call[p].uid # NoUser /\ users[call[p].uid].email = GuestEmail

\* two calls run at once for the same email, or both anonymous, on a database
\* that started empty, and share the one user row it now has
C12_Witness ==
  /\ Len(users) = 1
  /\ call["p1"].pc # "idle"
  /\ call["p2"].pc # "idle"
  /\ call["p1"].sess = call["p2"].sess
  /\ call["p1"].uid = 1
  /\ call["p2"].uid = 1

\* the place of chat c in the updatedAt order, most recent first
Place(c) == CHOOSE k \in 1..Len(recent) : recent[k] = c

\* C13: the items a listChats returns name, once each, exactly the chats that
\* belong to the resolved caller and are not deleted, most recently updated
\* first, and an item holds the id and the title of its chat and nothing else.
C13_ListsOwnLiveChats ==
  [][\A p \in Procs :
       Ends(p) /\ call[p].op = "listChats" =>
         LET items == out'.res.items IN
           /\ out'.res.kind = "ok"
           /\ {items[i].id : i \in 1..Len(items)} =
                {c \in Ids(chats) : chats[c].userId = call[p].uid /\ ~chats[c].deletedAt}
           /\ \A i, j \in 1..Len(items) : i < j => Place(items[i].id) < Place(items[j].id)
           /\ \A i \in 1..Len(items) :
                /\ DOMAIN items[i] = {"id", "title"}
                /\ items[i].title = chats[items[i].id].title
    ]_vars

\* a list of two chats was returned with the older chat first, because it was
\* updated last, while another user has a chat too
C13_Witness ==
  /\ out.call.op = "listChats"
  /\ out.res.kind = "ok"
  /\ Len(out.res.items) = 2
  /\ out.res.items[1].id < out.res.items[2].id
  /\ \E c \in Ids(chats) : chats[c].userId # out.call.uid

\* C14: no step removes a chat row or clears deletedAt; a deleteChat that
\* returns ok changes nothing but the deletedAt of its chat, which is then set;
\* and no chat with deletedAt set is among the items a listChats returns.
C14_SoftDelete ==
  [][/\ Len(chats') >= Len(chats)
     /\ \A c \in Ids(chats) : chats[c].deletedAt => chats'[c].deletedAt
     /\ \A p \in Procs :
          Ends(p) /\ call[p].op = "deleteChat" /\ out'.res.kind = "ok" =>
            /\ chats' = [chats EXCEPT ![call[p].chatId].deletedAt = TRUE]
            /\ pathways' = pathways
     /\ \A p \in Procs :
          Ends(p) /\ call[p].op = "listChats" =>
            \A i \in 1..Len(out'.res.items) : ~chats[out'.res.items[i].id].deletedAt
    ]_vars

\* the owner of a deleted chat got a list, and the chat is still stored
C14_Witness ==
  /\ out.call.op = "listChats"
  /\ out.res.kind = "ok"
  /\ \E c \in Ids(chats) :
       /\ chats[c].deletedAt
       /\ chats[c].userId = out.call.uid
       /\ \A i \in 1..Len(out.res.items) : out.res.items[i].id # c

\* C15: no step changes the userId of a stored chat.
C15_OwnerFixed ==
  [][\A c \in Ids(chats) : chats'[c].userId = chats[c].userId]_vars

\* a chat that got a turn appended and then a pathway saved has its owner
C15_Witness ==
  /\ out.call.op = "savePlanAsPathway"
  /\ out.res.kind = "ok"
  /\ chats[out.call.chatId].messages # <<>>
  /\ chats[out.call.chatId].userId = out.call.uid

CreateHandlers == {"createChat", "createChat2", "createChat3"}

\* C16: a createChat that returns ok has added one chat row and left the others
\* as they were; the id it returns is the id of the new row and of no chat
\* before; the row has the resolved caller as owner, the initial messages (none
\* when omitted), the initial roadmap (null when omitted) and an events list of
\* exactly one creation event.
C16_ChatCreated ==
  [][\A p \in Procs :
       Ends(p) /\ call[p].op \in CreateHandlers =>
         LET id == out'.res.id IN
           /\ out'.res.kind = "ok"
           /\ id \notin Ids(chats)
           /\ Len(chats') = Len(chats) + 1
           /\ id \in Ids(chats')
           /\ \A c \in Ids(chats) : chats'[c] = chats[c]
           /\ chats'[id].userId = call[p].uid
           /\ chats'[id].messages = call[p].args.messages
           /\ chats'[id].roadmap =
                (IF call[p].args.roadmap = Undefined THEN Null ELSE call[p].args.roadmap)
           /\ Len(chats'[id].events) = 1
           /\ chats'[id].events[1].type = "createChat"
    ]_vars

\* C17: a generatePractice call that has ended has returned, not raised, and
\* it has returned the empty result when the API key was missing, when the
\* call to the service failed, and when the response was not JSON or was JSON
\* of another shape than an object.
C17_PracticeNeverRaises ==
  practice.pc = "done" =>
    /\ practice.res.kind = "returned"
    /\ ( \/ ~practice.input.apiKey
         \/ practice.resp.kind # "json"
         \/ practice.resp.doc.kind # "object" )
       => practice.res.mcqs = <<>> /\ practice.res.texts = <<>>

\* the count in force for an optional count c: c, or dflt, within 1..hi
Effective(c, dflt, hi) ==
  LET n == IF c.given THEN c.n ELSE dflt
  IN IF n < 1 THEN 1 ELSE IF n > hi THEN hi ELSE n

\* C18: for a response that parsed, the mcqs returned are the first candidates,
\* as many as the MCQ count in force and in response order, among those whose
\* question is a string, whose options are an array of 4 and whose
\* correctIndex is an integer from 0 to 3; the texts are the first candidates
\* whose prompt is a string, as many as the short-answer count in force.
C18_ValidCandidatesKept ==
  practice.pc = "done" /\ practice.input.apiKey /\ practice.resp.kind = "json" =>
    LET doc == practice.resp.doc
        goodMcq(q) == /\ q.isObj
                      /\ q.question.t = "string"
                      /\ q.options.t = "array" /\ q.options.n = 4
                      /\ q.correctIndex.t = "number" /\ ~q.correctIndex.frac
                      /\ q.correctIndex.n \in 0..3
        goodText(t) == t.isObj /\ t.prompt.t = "string"
        mcqs == SelectSeq(doc.mcqs.items, goodMcq)
        texts == SelectSeq(doc.texts.items, goodText)
        nm == Min2(Len(mcqs), Effective(practice.input.numMcqs, 3, 6))
        nt == Min2(Len(texts), Effective(practice.input.numTexts, 2, 4))
    IN /\ practice.res.kind = "returned"
       /\ practice.res.mcqs = SubSeq(mcqs, 1, nm)
       /\ practice.res.texts = SubSeq(texts, 1, nt)

\* of four candidates the second had three options: the other three came back
C18_Witness ==
  /\ practice.pc = "done"
  /\ practice.resp.kind = "json"
  /\ Len(practice.resp.doc.mcqs.items) = 4
  /\ practice.resp.doc.mcqs.items[2].options = Arr(3)
  /\ practice.res.mcqs = <<GoodMcq(1), GoodMcq(3), GoodMcq(4)>>

\* C19: the MCQ count of a call is numMcqs (3 when omitted) brought into 1..6
\* and its short-answer count numTexts (2 when omitted) brought into 1..4,
\* and the call returns no more mcqs and texts than these counts.
C19_CountsClamped ==
  /\ practice.pc \in {"awaiting", "done"} /\ practice.input.apiKey =>
       /\ practice.numMcqs = Effective(practice.input.numMcqs, 3, 6)
       /\ practice.numTexts = Effective(practice.input.numTexts, 2, 4)
  /\ practice.pc = "done" =>
       /\ Len(practice.res.mcqs) <= Effective(practice.input.numMcqs, 3, 6)
       /\ Len(practice.res.texts) <= Effective(practice.input.numTexts, 2, 4)

\* asked for more than six mcqs with seven good candidates, the call gave six
C19_Witness ==
  /\ practice.pc = "done"
  /\ practice.input.numMcqs.given
  /\ practice.input.numMcqs.n > 6
  /\ Len(practice.resp.doc.mcqs.items) = 7
  /\ Len(practice.res.mcqs) = 6

\* C20: an extraction that has ended has not raised, and its result is null
\* when the text has no "[", has no "]", has its last "]" before its first "[",
\* or when the text from the first "[" to the last "]" is no JSON or is JSON of
\* another value than an array.
C20_ExtractNeverThrows ==
  extract.pc = "done" =>
    LET t == extract.text
        opens == {i \in 1..Len(t) : t[i] = "["}
        closes == {i \in 1..Len(t) : t[i] = "]"}
    IN /\ extract.res.kind # "threw"
       /\ (opens = {} \/ closes = {}) => extract.res.kind = "null"
       /\ opens # {} /\ closes # {} =>
            LET first == CHOOSE i \in opens : \A j \in opens : i <= j
                last == CHOOSE i \in closes : \A j \in closes : j <= i
            IN /\ last <= first => extract.res.kind = "null"
               /\ last > first =>
                    LET parsed == ParseJson(SubSeq(t, first, last))
                    IN ~parsed.ok \/ parsed.v.k # "array" => extract.res.kind = "null"

\* a text with "[" before "]" and no JSON between them gave null
C20_Witness ==
  /\ extract.pc = "done"
  /\ extract.res.kind = "null"
  /\ IndexOf(extract.text, "[") # 0
  /\ IndexOf(extract.text, "[") < LastIndexOf(extract.text, "]")
  /\ ~ParseJson(SubSeq(extract.text, IndexOf(extract.text, "["), LastIndexOf(extract.text, "]"))).ok

\* an element of a roadmap as the specification describes it
WellFormedSubtopic(v) == v.k = "object" /\ v.type = "SUBTOPIC" /\ v.nameT = "string"
WellFormedTopic(v) ==
  /\ v.k = "object" /\ v.type = "TOPIC" /\ v.nameT = "string"
  /\ Len(v.subs) = 1 /\ v.subs[1].k = "array"
  /\ \A i \in 1..Len(v.subs[1].items) : WellFormedSubtopic(v.subs[1].items[i])

\* the text from the first "[" to the last "]" of a text that has such a span
SpanOf(t) == SubSeq(t, IndexOf(t, "["), LastIndexOf(t, "]"))
HasSpan(t) == IndexOf(t, "[") # 0 /\ IndexOf(t, "[") < LastIndexOf(t, "]")

\* C21: when the span of the text parses to an array, the extraction returns
\* the whole parsed array if every element is a well-formed topic with
\* well-formed subtopics, and null if one element is not; the empty array is
\* returned as a roadmap, which is another result than null.
C21_AllOrNothing ==
  (extract.pc # "ready" /\ HasSpan(extract.text)) =>
    LET parsed == ParseJson(SpanOf(extract.text)) IN
      (parsed.ok /\ parsed.v.k = "array") =>
        /\ (\A i \in 1..Len(parsed.v.items) : WellFormedTopic(parsed.v.items[i]))
             => extract.res = [kind |-> "roadmap", plan |-> parsed.v]
        /\ (\E i \in 1..Len(parsed.v.items) : ~WellFormedTopic(parsed.v.items[i]))
             => extract.res.kind = "null"
        /\ parsed.v.items = <<>> => extract.res.kind = "roadmap" /\ extract.res.plan.items = <<>>

\* an array of one well-formed topic and one number gave null
C21_Witness ==
  /\ extract.pc # "ready"
  /\ HasSpan(extract.text)
  /\ ParseJson(SpanOf(extract.text)).ok
  /\ ParseJson(SpanOf(extract.text)).v.k = "array"
  /\ Len(ParseJson(SpanOf(extract.text)).v.items) = 2
  /\ WellFormedTopic(ParseJson(SpanOf(extract.text)).v.items[1])
  /\ ~WellFormedTopic(ParseJson(SpanOf(extract.text)).v.items[2])
  /\ extract.res.kind = "null"

\* C22: a text made of a prefix, the JSON of a valid roadmap and a suffix,
\* where the prefix and the suffix may hold "[" and "]", gives that roadmap.
C22_RecoversEmbedded ==
  extract.pc # "ready" =>
    \A pre \in Affixes, suf \in Affixes, span \in RoadmapSpans :
      extract.text = pre \o span \o suf =>
        extract.res = [kind |-> "roadmap", plan |-> ParseJson(span).v]

\* C23: when the extraction gave no roadmap, the stripped text is the trimmed
\* original text with nothing removed; when it gave a roadmap, the stripped
\* text is the trimmed prefix and the trimmed suffix of the span, joined by a
\* blank line when both are non-empty.
C23_StripsOnlyRoadmaps ==
  extract.pc = "stripped" =>
    LET t == extract.text IN
      /\ extract.res.kind = "null" => extract.clean = TrimText(t)
      /\ extract.res.kind = "roadmap" =>
           LET before == TrimText(SubSeq(t, 1, IndexOf(t, "[") - 1))
               after == TrimText(SubSeq(t, LastIndexOf(t, "]") + 1, Len(t)))
           IN extract.clean =
                IF before # <<>> /\ after # <<>> THEN before \o <<"nn">> \o after
                ELSE before \o after

\* C25: the write of a saveChatSnapshot call stores the messages and the
\* roadmap of that one call, and the call's read and write are one
\* transaction: the row it overwrites is the row it read, no other call has
\* written the chat in between.
C25_SnapshotInOneTransaction ==
  [][\A p \in Procs :
       (call[p].op \in {"saveChatSnapshot", "saveChatSnapshot2"} /\ call[p].pc = "update"
          /\ call'[p].pc = "idle") =>
         LET c == call[p].chatId IN
           /\ chats'[c].messages = call[p].args.messages
           /\ chats'[c].roadmap = IF call[p].args.roadmap = Undefined THEN Null
                                  ELSE call[p].args.roadmap
           /\ chats[c] = call[p].rd]_vars

C27_TitleBackfilledOnce ==
  [][\A p \in Procs :
       /\ Ends(p)
       /\ call[p].op \in {"appendTurn", "saveChatSnapshot", "saveChatSnapshot2"}
       /\ chats'[call[p].chatId].title # chats[call[p].chatId].title
       => /\ chats[call[p].chatId].title = NoTitle
          /\ call[p].op = "appendTurn" =>
               LET ms == chats'[call[p].chatId].messages
                   first == CHOOSE i \in 1..Len(ms) :
                              ms[i].type = "user" /\ \A j \in 1..(i - 1) : ms[j].type # "user"
               IN chats'[call[p].chatId].title =
                    {SubSeq(ms[first].content, 1, IF Len(ms[first].content) < 60
                                                  THEN Len(ms[first].content) ELSE 60)}
    ]_vars

\* the call that starts in this step: the one a process takes up, or the one
\* that ended at once because its identity resolution raised
Begins == calls' = calls + 1
BegunCall ==
  IF \E p \in Procs : call[p].pc = "idle" /\ call'[p].pc # "idle"
  THEN call'[CHOOSE p \in Procs : call[p].pc = "idle" /\ call'[p].pc # "idle"]
  ELSE out'.call

\* C28: when the call that ended last is a createChat that returned ok, a
\* getChatSnapshot, appendTurn, renameChat, deleteChat, saveChatSnapshot or
\* savePlanAsPathway that starts under the same session on the chat it created
\* resolves the session, without raising, to the user id stored as the chat's
\* owner.
C28_SameIdentityEverywhere ==
  [][(/\ Begins
      /\ out.call.op = "createChat"
      /\ out.res.kind = "ok"
      /\ BegunCall.op \in ChatHandlers
      /\ BegunCall.sess = out.call.sess
      /\ BegunCall.chatId = out.res.id)
     => /\ \E p \in Procs : call[p].pc = "idle" /\ call'[p].pc # "idle"
        /\ BegunCall.uid = chats[out.res.id].userId
    ]_vars

\* C29: the list the home chat page shows only grows: every message shown
\* before a step, a step of an overlapping send included, is shown after it,
\* so that after two sends the list holds the welcome message and the user
\* message and reply of both.
C29_ListOnlyGrows ==
  [][\A i \in 1..Len(page.messages) : page.messages[i] \in Range(page'.messages)]_vars

\* the chat the n-th send belongs to: the one its createChat made, or the one
\* the page already had
ChatOfSend(n) ==
  IF page.run[n].created # 0 THEN page.run[n].created ELSE page.run[n].closure.chatId

\* C30: once the backend has replied to a send (whose createChat, if it made
\* one, succeeded), the page eventually calls saveChatSnapshot for the chat of
\* that send with a list that ends with the send's user message and its reply;
\* this holds for the first send too, which starts without a chatId.
C30_TurnPersisted ==
  \A n \in 1..MaxSends :
    page.run[n].replied ~>
      \E i \in 1..Len(page.saves) :
        /\ page.saves[i].chatId = ChatOfSend(n)
        /\ Len(page.saves[i].messages) >= 2
        /\ SubSeq(page.saves[i].messages, Len(page.saves[i].messages) - 1,
                  Len(page.saves[i].messages)) = <<userMsg(n), aiMsg(n)>>

\* C24: a handleSend call in which the backend request or a snapshot save
\* failed (it threw, or the save answered { ok: false }) ends with exactly one
\* error message of that call in the list on display and with isTyping false.
C24_FailureShownOnce ==
  [][\A n \in 1..MaxSends :
       (page.run[n].pc # "done" /\ page'.run[n].pc = "done" /\ page'.run[n].failed) =>
         /\ Cardinality({i \in 1..Len(page'.messages) : page'.messages[i] = aiErr(n)}) = 1
         /\ ~page'.isTyping
    ]_vars

====
